---------------------------- MODULE Spec2Model ----------------------------
(***************************************************************************)
(* The seller actor of bitcoin-broker (src/src/seller.rs) with its purchase *)
(* ledger, fee arithmetic and profit collection (src/src/models.rs).        *)
(*                                                                          *)
(* A Decimal is a sign, a mantissa of at most 96 bits and a scale of at most *)
(* 28, as in rust_decimal: the result of an operation is exact when it fits *)
(* these, is rounded when its fraction does not, and the operation panics   *)
(* when its whole part does not.  Time is counted in minutes.               *)
(***************************************************************************)
EXTENDS Integers, Sequences, FiniteSets

\* ----------------------------------------------------------------- bounds
\* Messages put on the inbound channel in one run of the actor.
MaxMsgs == 3
\* Capacity of the inbound channel handed to spawn.
MaxInbox == 2
\* Minutes the clock advances during a run.
MaxTime == 1
\* Purchases pushed on a ledger that is then called directly (SpecCollect).
MaxLedger == 4
\* Direct calls of collect_profit and pop made on such a ledger.
MaxCalls == 2
\* Capacity of the outbound channel handed to spawn, when it is not a
\* rendezvous channel (capacity 0, as in the tests).
MaxOutbox == 1

\* ----------------------------------------------------------- input domains
\* A Decimal input is written <<num, scale>>, the arguments of Decimal::new:
\* <<175, 2>> is 1.75.
\* Quantities and buy rates of the purchases the buyer reports.
BuyerBtcs == {<<1, 2>>}
BuyerRates == {1, 2}
\* Rates the trend publisher reports, and collect_profit is called with.
Trends == {2, 4}
\* Quantity and buy rate of the purchases pushed on a ledger directly.
LedgerPurchases ==
    {<<<<1, 2>>, <<1, 0>>>>, <<<<2, 0>>, <<1, 0>>>>, <<<<1, 2>>, <<2, 0>>>>,
     <<<<2, 0>>, <<2, 0>>>>, <<<<2, 0>>, <<25, 1>>>>}
\* The readings the trend publisher sends: the rate, and the age of the
\* reading, in minutes, at the moment it is sent.
Readings == {<<2, 0>>, <<4, 0>>, <<4, 5>>}
\* Fee percentages and minimum margins collect_profit is called with.
FeePercents == {50}
MinMargins == {0, 100}

VARIABLES
    now,         \* Instant::now(), in minutes
    inbox,       \* the inbound channel: messages sent and not yet received
    inputOpen,   \* some Sender<Message> is still alive
    outputOpen,  \* the Receiver<Offer> is still alive
    pc,          \* the actor thread: "recv", "send", "panicked", "stopped"
    state,       \* the actor's State: account (the BinaryHeap's backing
                 \* vector), fee and min_margin
    pending,     \* the offer the actor is blocked sending, as a 0/1 sequence
    outCap,      \* the capacity the outbound channel was made with
    outbox,      \* the outbound channel: offers sent and not yet taken
    offers,      \* every offer taken by the downstream consumer, in order
    sent,        \* history: every message put on the inbound channel, in order
    log          \* history: one record per call made on the ledger

vars == <<now, inbox, inputOpen, outputOpen, pc, state, pending, outCap,
          outbox, offers, sent, log>>

\* ------------------------------------------------- natural numbers of any size
\* The 96-bit mantissa of a Decimal, and the wider intermediate results of
\* its operations, as the digits of a natural number in base Base, the least
\* significant first and the most significant not 0: <<>> is 0.
Base == 10000

RECURSIVE BigOfNat(_)
BigOfNat(n) == IF n = 0 THEN <<>> ELSE <<n % Base>> \o BigOfNat(n \div Base)

RECURSIVE BigTrim(_)
BigTrim(a) ==
    IF a # <<>> /\ a[Len(a)] = 0 THEN BigTrim(SubSeq(a, 1, Len(a) - 1)) ELSE a

Limb(a, i) == IF i <= Len(a) THEN a[i] ELSE 0

RECURSIVE big_cmp(_, _, _)
big_cmp(a, b, i) ==
    IF i = 0 THEN 0
    ELSE IF a[i] < b[i] THEN -1
    ELSE IF a[i] > b[i] THEN 1
    ELSE big_cmp(a, b, i - 1)

\* -1, 0 or 1 as a is less than, equal to or greater than b.
BigCmp(a, b) ==
    IF Len(a) < Len(b) THEN -1
    ELSE IF Len(a) > Len(b) THEN 1
    ELSE big_cmp(a, b, Len(a))

RECURSIVE big_add(_, _, _, _)
big_add(a, b, i, carry) ==
    IF i > Len(a) /\ i > Len(b)
    THEN IF carry = 0 THEN <<>> ELSE <<carry>>
    ELSE LET s == Limb(a, i) + Limb(b, i) + carry
         IN  <<s % Base>> \o big_add(a, b, i + 1, s \div Base)

BigAdd(a, b) == big_add(a, b, 1, 0)

\* a - b for a >= b.
RECURSIVE big_sub(_, _, _, _)
big_sub(a, b, i, borrow) ==
    IF i > Len(a) THEN <<>>
    ELSE LET d == a[i] - Limb(b, i) - borrow
         IN  IF d < 0
             THEN <<d + Base>> \o big_sub(a, b, i + 1, 1)
             ELSE <<d>> \o big_sub(a, b, i + 1, 0)

BigSub(a, b) == BigTrim(big_sub(a, b, 1, 0))

\* a * k for 0 <= k <= Base.
RECURSIVE big_mul_small(_, _, _, _)
big_mul_small(a, k, i, carry) ==
    IF i > Len(a)
    THEN IF carry = 0 THEN <<>> ELSE <<carry>>
    ELSE LET p == a[i] * k + carry
         IN  <<p % Base>> \o big_mul_small(a, k, i + 1, p \div Base)

BigMulSmall(a, k) == IF k = 0 THEN <<>> ELSE big_mul_small(a, k, 1, 0)

\* a * Base
BigShift(a) == IF a = <<>> THEN <<>> ELSE <<0>> \o a

RECURSIVE BigMul(_, _)
BigMul(a, b) ==
    IF a = <<>> \/ b = <<>> THEN <<>>
    ELSE BigAdd(BigMulSmall(a, b[1]), BigShift(BigMul(a, Tail(b))))

\* a * 10^k
RECURSIVE ScaleUp(_, _)
ScaleUp(a, k) ==
    IF k = 0 THEN a
    ELSE IF k >= 4 THEN ScaleUp(BigShift(a), k - 4)
    ELSE ScaleUp(BigMulSmall(a, 10), k - 1)

\* The quotient q and the remainder r of a by k, 0 < k <= Base, from the
\* most significant digit down.
RECURSIVE big_div_small(_, _, _, _)
big_div_small(a, k, i, r) ==
    IF i = 0 THEN [q |-> <<>>, r |-> r]
    ELSE LET cur == r * Base + a[i]
             lower == big_div_small(a, k, i - 1, cur % k)
         IN  [q |-> Append(lower.q, cur \div k), r |-> lower.r]

BigDivSmall(a, k) ==
    LET d == big_div_small(a, k, Len(a), 0) IN [q |-> BigTrim(d.q), r |-> d.r]

\* The largest q in lo..hi with b * q <= r.
RECURSIVE big_digit(_, _, _, _)
big_digit(r, b, lo, hi) ==
    IF lo = hi THEN lo
    ELSE LET mid == (lo + hi + 1) \div 2
         IN  IF BigCmp(BigMulSmall(b, mid), r) <= 0
             THEN big_digit(r, b, mid, hi)
             ELSE big_digit(r, b, lo, mid - 1)

\* The quotient q and the remainder r of a by b, b not 0: long division from
\* the digit i of a down, r what remains of the digits above it and q the
\* digits of the quotient found so far.
RECURSIVE big_div_mod(_, _, _, _, _)
big_div_mod(a, b, i, r, q) ==
    IF i = 0 THEN [q |-> q, r |-> r]
    ELSE LET cur == BigTrim(<<a[i]>> \o r)
             digit == big_digit(cur, b, 0, Base - 1)
         IN  IF digit = 0
             THEN big_div_mod(a, b, i - 1, cur, <<0>> \o q)
             ELSE big_div_mod(a, b, i - 1, BigSub(cur, BigMulSmall(b, digit)),
                              <<digit>> \o q)

BigDivMod(a, b) ==
    IF Len(b) = 1
    THEN LET d == BigDivSmall(a, b[1]) IN [q |-> d.q, r |-> BigOfNat(d.r)]
    ELSE LET d == big_div_mod(a, b, Len(a), <<>>, <<>>)
         IN  [q |-> BigTrim(d.q), r |-> d.r]

BigOdd(a) == Limb(a, 1) % 2 = 1

\* ------------------------------------------------------------ Decimal
\* rust_decimal::Decimal: a sign, a mantissa mag of at most 96 bits and a
\* scale e of at most MAX_PRECISION, the number (+/-) mag / 10^e.  Eq and Ord
\* of Decimal are numeric (1.0 == 1.00), so a value is kept with the trailing
\* zeros of its fraction stripped and zero without a sign, which makes = the
\* Decimal's equality.
MAX_PRECISION == 28

\* 2^96 - 1 = 79228162514264337593543950335, the mantissa of Decimal::MAX.
MaxMantissa == <<335, 4395, 5935, 4337, 1426, 1625, 9228, 7>>

\* What an operation that panics leaves in place of its value.
Panic == [neg |-> FALSE, mag |-> <<>>, e |-> -1]

RECURSIVE Normal(_, _, _)
Normal(neg, mag, e) ==
    IF mag = <<>> THEN [neg |-> FALSE, mag |-> <<>>, e |-> 0]
    ELSE IF e > 0 /\ mag[1] % 10 = 0
    THEN Normal(neg, BigDivSmall(mag, 10).q, e - 1)
    ELSE [neg |-> neg, mag |-> mag, e |-> e]

\* The low digits of mag dropped one by one while the scale is above
\* MAX_PRECISION or the mantissa above 96 bits: what is left, the last digit
\* dropped, and whether a digit dropped before it was not 0.
RECURSIVE fit_loop(_, _, _, _)
fit_loop(mag, e, last, sticky) ==
    IF e > 0 /\ (BigCmp(mag, MaxMantissa) > 0 \/ e > MAX_PRECISION)
    THEN LET d == BigDivSmall(mag, 10)
         IN  fit_loop(d.q, e - 1, d.r, sticky \/ last # 0)
    ELSE [mag |-> mag, e |-> e, last |-> last, sticky |-> sticky]

\* The exact result (+/-) mag / 10^e of an operation as the Decimal it
\* returns: scaled down until it fits, rounded to the nearest, a tie to the
\* even mantissa; the operation panics when the whole part alone does not fit.
RECURSIVE Fit(_, _, _)
\* f is what fit_loop left.
fit_round(neg, f) ==
    LET r == IF f.last > 5 \/ (f.last = 5 /\ (f.sticky \/ BigOdd(f.mag)))
             THEN BigAdd(f.mag, <<1>>) ELSE f.mag
    IN  IF BigCmp(r, MaxMantissa) <= 0 THEN Normal(neg, r, f.e)
        ELSE IF f.e > 0 THEN Fit(neg, r, f.e)
        ELSE Panic

Fit(neg, mag, e) == fit_round(neg, fit_loop(mag, e, 0, FALSE))

Abs(n) == IF n < 0 THEN 0 - n ELSE n

\* Decimal::new(num, scale), and the whole number n.
DecNew(num, scale) ==
    IF scale > MAX_PRECISION THEN Panic
    ELSE Normal(num < 0, BigOfNat(Abs(num)), scale)
Dec(n) == DecNew(n, 0)

\* Decimal::MAX
DecMAX == [neg |-> FALSE, mag |-> MaxMantissa, e |-> 0]

\* The mantissa of d at the scale e, e >= d.e.
Units(d, e) == ScaleUp(d.mag, e - d.e)
MaxScale(a, b) == IF a.e >= b.e THEN a.e ELSE b.e

\* Ord for Decimal.
DecLt(a, b) ==
    LET e == MaxScale(a, b)
        c == BigCmp(Units(a, e), Units(b, e))
    IN  IF a.neg # b.neg THEN a.neg
        ELSE IF a.neg THEN c > 0 ELSE c < 0
DecLe(a, b) == a = b \/ DecLt(a, b)
DecGt(a, b) == DecLt(b, a)
DecGe(a, b) == DecLe(b, a)

\* Sub for Decimal: the exact difference, fitted; it panics on overflow, and
\* so does an operation one of whose operands never came to be.
\* (+/-) x / 10^e minus (+/-) y / 10^e.
sub_units(aneg, x, bneg, y, e) ==
    Fit(IF aneg = bneg /\ BigCmp(x, y) < 0 THEN ~aneg ELSE aneg,
        IF aneg # bneg THEN BigAdd(x, y)
        ELSE IF BigCmp(x, y) >= 0 THEN BigSub(x, y) ELSE BigSub(y, x),
        e)

DecSub(a, b) ==
    IF a = Panic \/ b = Panic THEN Panic
    ELSE sub_units(a.neg, Units(a, MaxScale(a, b)),
                   b.neg, Units(b, MaxScale(a, b)), MaxScale(a, b))

\* Mul for Decimal: the exact product, fitted; it panics on overflow.
DecMul(a, b) ==
    IF a = Panic \/ b = Panic THEN Panic
    ELSE Fit(a.neg # b.neg, BigMul(a.mag, b.mag), a.e + b.e)

\* The digits of a quotient one by one, from the whole quotient d.q and the
\* remainder d.r, until nothing remains, or the fraction
\* has MAX_PRECISION digits, or one more digit would not fit the mantissa;
\* then the last digit is rounded to the nearest, a tie to the even one.
RECURSIVE div_loop(_, _, _)
div_loop(d, divisor, scale) ==
    IF d.r = <<>> THEN [q |-> d.q, e |-> scale]
    ELSE LET r10 == BigMulSmall(d.r, 10)
             digit == big_digit(r10, divisor, 0, 9)
             next == BigAdd(BigMulSmall(d.q, 10), BigOfNat(digit))
             half == BigCmp(BigMulSmall(d.r, 2), divisor)
         IN  IF scale = MAX_PRECISION \/ BigCmp(next, MaxMantissa) > 0
             THEN [q |-> IF half > 0 \/ (half = 0 /\ BigOdd(d.q))
                         THEN BigAdd(d.q, <<1>>) ELSE d.q,
                   e |-> scale]
             ELSE div_loop([q |-> next,
                            r |-> BigSub(r10, BigMulSmall(divisor, digit))],
                           divisor, scale + 1)

\* Div for Decimal: the mantissas divided at the scale a.e - b.e; it panics
\* on a zero divisor and on overflow.
\* The quotient r that div_loop left, as a Decimal.
div_fit(neg, r) == Fit(neg, r.q, r.e)

DecDiv(a, b) ==
    IF a = Panic \/ b = Panic \/ b.mag = <<>> THEN Panic
    ELSE div_fit(a.neg # b.neg,
                 div_loop(BigDivMod(ScaleUp(a.mag, IF b.e > a.e
                                                   THEN b.e - a.e ELSE 0),
                                    b.mag),
                          b.mag, IF a.e > b.e THEN a.e - b.e ELSE 0))

\* ------------------------------------------------------------ models.rs
FeeNone == [kind |-> "None"]
FeePercentage(p) == [kind |-> "Percentage", p |-> p]

Purchase(id, btc, rate) == [id |-> id, btc |-> btc, rate |-> rate]

\* The price of one bitcoin of the purchase, whatever its quantity.
buying_price_rate_only(self) == self.rate

buying_price(self) == DecMul(self.btc, self.rate)

margin(self, current_trend) ==
    DecSub(DecMul(self.btc, current_trend), buying_price(self))

\* The match on the fee of margin_after_fee, m being the margin.
after_fee(m, f) ==
    IF f.kind = "Percentage"
    THEN DecSub(m, DecMul(DecDiv(m, Dec(100)), f.p))
    ELSE m

margin_after_fee(self, current_trend, f) ==
    after_fee(margin(self, current_trend), f)

\* Ord for Purchase: other.rate.cmp(&self.rate), as -1 (Less), 0, 1 (Greater).
DecimalCmp(a, b) == IF DecLt(a, b) THEN -1 ELSE IF a = b THEN 0 ELSE 1
PurchaseCmp(self, other) == DecimalCmp(other.rate, self.rate)
\* PartialOrd::le, derived from partial_cmp.
PurchaseLe(a, b) == PurchaseCmp(a, b) \in {-1, 0}
\* PartialEq for Purchase.
PurchaseEq(a, b) == a.id = b.id

\* ---- PurchaseAccount = BinaryHeap<Purchase>: a max-heap under PurchaseCmp,
\* kept in a vector; At(data, i) is data[i] of the zero-based vector.
At(data, i) == data[i + 1]
Put(data, i, x) == [data EXCEPT ![i + 1] = x]

RECURSIVE sift_up_loop(_, _, _, _)
sift_up_loop(data, elt, start, pos) ==
    IF pos > start
    THEN LET parent == (pos - 1) \div 2 IN
         IF PurchaseLe(elt, At(data, parent))
         THEN Put(data, pos, elt)
         ELSE sift_up_loop(Put(data, pos, At(data, parent)), elt, start, parent)
    ELSE Put(data, pos, elt)

sift_up(data, start, pos) == sift_up_loop(data, At(data, pos), start, pos)

\* The descent always taking the left child.
RECURSIVE sift_down_loop_left(_, _, _, _)
sift_down_loop_left(data, elt, start, pos) ==
    LET end == Len(data)
        child == 2 * pos + 1
    IN  IF end >= 2 /\ child <= end - 2
        THEN sift_down_loop_left(Put(data, pos, At(data, child)), elt, start,
                                 child)
        ELSE IF child = end - 1
        THEN sift_up_loop(Put(data, pos, At(data, child)), elt, start, child)
        ELSE sift_up_loop(data, elt, start, pos)

RECURSIVE sift_down_loop(_, _, _, _)
sift_down_loop(data, elt, start, pos) ==
    LET end == Len(data)
        child == 2 * pos + 1
    IN  IF end >= 2 /\ child <= end - 2
        THEN LET c == IF PurchaseLe(At(data, child), At(data, child + 1))
                      THEN child + 1 ELSE child
             IN  sift_down_loop(Put(data, pos, At(data, c)), elt, start, c)
        ELSE IF child = end - 1
        THEN sift_up_loop(Put(data, pos, At(data, child)), elt, start, child)
        ELSE sift_up_loop(data, elt, start, pos)

sift_down_to_bottom(data, pos) == sift_down_loop(data, At(data, pos), pos, pos)

\* A container keyed by the ordering: a purchase whose rate is already held
\* is not added.
push_unique_rate(data, item) ==
    IF \E i \in 1..Len(data) : PurchaseCmp(data[i], item) = 0
    THEN data
    ELSE sift_up(Append(data, item), 0, Len(data))

\* BinaryHeap::push
push(data, item) == sift_up(Append(data, item), 0, Len(data))

\* BinaryHeap::peek, as a sequence of zero or one purchase
peek(data) == IF data = <<>> THEN <<>> ELSE <<At(data, 0)>>

\* BinaryHeap::pop: the vector's last item takes the root's place and sinks.
pop(data) ==
    IF data = <<>> THEN [data |-> data, item |-> <<>>]
    ELSE LET last == data[Len(data)]
             rest == SubSeq(data, 1, Len(data) - 1)
         IN  IF rest = <<>>
             THEN [data |-> rest, item |-> <<last>>]
             ELSE [data |-> sift_down_to_bottom(Put(rest, 0, last), 0),
                   item |-> <<At(rest, 0)>>]

\* An offer that lists its purchases at the rate they are sold for.
Offer_at_sale_rate(id, rate, purchases) ==
    [id |-> id, rate |-> rate,
     purchases |-> [k \in 1..Len(purchases) |->
                       [purchases[k] EXCEPT !.rate = rate]]]

Offer(id, rate, purchases) == [id |-> id, rate |-> rate, purchases |-> purchases]

\* ------------------------------------------------------------ seller.rs
_5MIN == 5

TrendReading(current_trend, observed_at) ==
    [type |-> "TrendReading", current_trend |-> current_trend,
     observed_at |-> observed_at]
NewPurchase(purchase) == [type |-> "NewPurchase", purchase |-> purchase]

\* The threshold test of collect_profit for one purchase: "yes" or "no", or
\* "panic" when one of its operations panics.
yields_margin(top_purchase, rate, f, mm) ==
    LET m == margin_after_fee(top_purchase, rate, f)
        flat_minimum_margin ==
            DecMul(DecDiv(buying_price(top_purchase), Dec(100)), mm)
    IN  IF m = Panic \/ flat_minimum_margin = Panic THEN "panic"
        ELSE IF DecGt(m, flat_minimum_margin) THEN "yes" ELSE "no"

\* The loop putting each purchase it sells in front of the batch.
RECURSIVE collect_loop_prepend(_, _, _, _, _)
collect_loop_prepend(acc, purchases_to_sell, rate, f, mm) ==
    LET y == IF peek(acc) = <<>> THEN "no"
             ELSE yields_margin(peek(acc)[1], rate, f, mm)
    IN  IF y = "yes"
        THEN LET r == pop(acc) IN
             collect_loop_prepend(r.data, r.item \o purchases_to_sell, rate, f, mm)
        ELSE [account |-> acc, purchases_to_sell |-> purchases_to_sell,
              panicked |-> y = "panic"]

\* The loop of collect_profit: the ledger and the batch it leaves, and whether
\* it was left by a panic of the threshold test.
RECURSIVE collect_loop(_, _, _, _, _)
collect_loop(acc, purchases_to_sell, rate, f, mm) ==
    LET y == IF peek(acc) = <<>> THEN "no"
             ELSE yields_margin(peek(acc)[1], rate, f, mm)
    IN  IF y = "yes"
        THEN LET r == pop(acc) IN
             collect_loop(r.data, purchases_to_sell \o r.item, rate, f, mm)
        ELSE [account |-> acc, purchases_to_sell |-> purchases_to_sell,
              panicked |-> y = "panic"]

\* collect_profit: the ledger it leaves and the Option<Offer> it returns (a
\* sequence of zero or one offer); uuid is the id Offer::new draws.  When the
\* threshold test panics the call unwinds: the purchases popped so far are
\* gone with the batch and nothing is returned.
\* r is what the loop left.
collected(r, rate, uuid) ==
    [account |-> r.account,
     offer |-> IF r.purchases_to_sell # <<>> /\ ~r.panicked
               THEN <<Offer(uuid, rate, r.purchases_to_sell)>>
               ELSE <<>>,
     panicked |-> r.panicked]

collect_profit(acc, rate, f, mm, uuid) ==
    collected(collect_loop(acc, <<>>, rate, f, mm), rate, uuid)

\* Instant::duration_since
duration_since(later, earlier) == IF later >= earlier THEN later - earlier ELSE 0

\* struct State
State(acc, f, mm) == [account |-> acc, fee |-> f, min_margin |-> mm]

\* What route returns for a reading it evaluates, r being what
\* collect_profit returned: Ok(None) or Ok(Some(offer)), or Panic when
\* collect_profit unwinds through it.
evaluated(st, r) ==
    [state |-> [st EXCEPT !.account = r.account],
     result |-> IF r.panicked THEN "Panic"
                ELSE IF r.offer = <<>> THEN "None" ELSE "Some",
     offer |-> r.offer]

\* route without its staleness check.
route_ungated(message, st, clock, uuid) ==
    IF message.type = "TrendReading"
    THEN evaluated(st, collect_profit(st.account, message.current_trend,
                                      st.fee, st.min_margin, uuid))
    ELSE [state |-> [st EXCEPT !.account = push(st.account, message.purchase)],
          result |-> "None", offer |-> <<>>]

\* route discarding a reading from the age of 5 minutes on.
route_stale_at_5(message, st, clock, uuid) ==
    IF message.type = "TrendReading"
    THEN IF duration_since(clock, message.observed_at) >= _5MIN
         THEN [state |-> st, result |-> "Err", offer |-> <<>>]
         ELSE evaluated(st, collect_profit(st.account, message.current_trend,
                                           st.fee, st.min_margin, uuid))
    ELSE [state |-> [st EXCEPT !.account = push(st.account, message.purchase)],
          result |-> "None", offer |-> <<>>]

\* route: the State it leaves, and Err / Ok(None) / Ok(Some(offer)), or Panic
\* when collect_profit unwinds through it.
route(message, st, clock, uuid) ==
    IF message.type = "TrendReading"
    THEN IF duration_since(clock, message.observed_at) > _5MIN
         THEN [state |-> st, result |-> "Err", offer |-> <<>>]
         ELSE evaluated(st, collect_profit(st.account, message.current_trend,
                                           st.fee, st.min_margin, uuid))
    ELSE [state |-> [st EXCEPT !.account = push(st.account, message.purchase)],
          result |-> "None", offer |-> <<>>]

\* Uuid::new_v4: an id no purchase, respectively no offer, had before.
NewPurchaseId == IF sent # <<>> THEN Len(sent) + 1 ELSE Len(log) + 1
NewOfferId == Len(SelectSeq(log, LAMBDA e : e.offer # <<>>)) + 1

\* One record of the history: the call, its input, the clock, the State
\* before and after, and what the call returned.
LogEntry(op, message, before, after, result, offer, item) ==
    [op |-> op, msg |-> message, at |-> now, before |-> before,
     after |-> after, result |-> result, offer |-> offer, item |-> item]

\* crossbeam channel: send puts at the back, recv takes from the front.
channel_send(chan, message) == Append(chan, message)
\* recv taking the newest message instead of the oldest.
channel_recv_newest(chan) ==
    [message |-> chan[Len(chan)], chan |-> SubSeq(chan, 1, Len(chan) - 1)]
channel_recv(chan) == [message |-> Head(chan), chan |-> Tail(chan)]

\* The fee and min_margin an actor is spawned with: no fee and a margin of
\* 100%, or a fee of 50% and no minimum margin.
SpawnArgs ==
    {[fee |-> FeeNone, min_margin |-> Dec(100)],
     [fee |-> FeePercentage(Dec(50)), min_margin |-> Dec(0)]}

\* spawn: an empty ledger, the fee and the minimum margin it was given.
Init ==
    /\ now = 0
    /\ inbox = <<>>
    /\ inputOpen = TRUE
    /\ outputOpen = TRUE
    /\ pc = "recv"
    /\ \E args \in SpawnArgs : state = State(<<>>, args.fee, args.min_margin)
    /\ pending = <<>>
    /\ outCap \in {0, MaxOutbox}
    /\ outbox = <<>>
    /\ offers = <<>>
    /\ sent = <<>>
    /\ log = <<>>

\* A producer's send of one message, while the channel has room and the
\* actor holds its Receiver.
Send(message) ==
    /\ inputOpen
    /\ pc # "stopped"
    /\ Len(sent) < MaxMsgs
    /\ Len(inbox) < MaxInbox
    /\ inbox' = channel_send(inbox, message)
    /\ sent' = Append(sent, message)
    /\ UNCHANGED <<now, inputOpen, outputOpen, pc, state, pending, outCap,
                   outbox, offers, log>>

\* The buyer reports a purchase it has just made.
BuyerSend ==
    \E b \in BuyerBtcs, r \in BuyerRates :
        Send(NewPurchase(Purchase(NewPurchaseId, DecNew(b[1], b[2]),
                                  Dec(r))))

\* The trend publisher reports a rate it observed some minutes ago.
TrendSend ==
    \E r \in Readings : Send(TrendReading(Dec(r[1]), now - r[2]))

\* The time at which the message the actor receives next was enqueued, where
\* the sends are logged.
EnqueuedAtHead ==
    LET sends == SelectSeq(log, LAMBDA e : e.op = "send")
    IN  sends[Len(sent) - Len(inbox) + 1].at

\* An iteration that judges a reading by the clock at the time it was put on
\* the channel.
ActorHandle_clock_at_enqueue ==
    /\ pc = "recv"
    /\ inbox # <<>>
    /\ \E rcv \in {channel_recv(inbox)} :
       \E r \in {route(rcv.message, state, EnqueuedAtHead, NewOfferId)} :
           /\ inbox' = rcv.chan
           /\ state' = r.state
           /\ pending' = r.offer
           /\ pc' = IF r.result = "Some" THEN "send"
                    ELSE IF r.result = "Panic" THEN "panicked" ELSE "recv"
           /\ log' = Append(log, LogEntry("route", rcv.message, state, r.state,
                                          r.result, r.offer, <<>>))
    /\ UNCHANGED <<now, inputOpen, outputOpen, outCap, outbox, offers, sent>>

\* An iteration that also starts while the last offer is still waiting to be
\* taken.
ActorHandle_while_sending ==
    /\ pc \in {"recv", "send"}
    /\ inbox # <<>>
    /\ \E rcv \in {channel_recv(inbox)} :
       \E r \in {route(rcv.message, state, now, NewOfferId)} :
           /\ inbox' = rcv.chan
           /\ state' = r.state
           /\ pending' = r.offer
           /\ pc' = IF r.result = "Some" THEN "send"
                    ELSE IF r.result = "Panic" THEN "panicked" ELSE "recv"
           /\ log' = Append(log, LogEntry("route", rcv.message, state, r.state,
                                          r.result, r.offer, <<>>))
    /\ UNCHANGED <<now, inputOpen, outputOpen, outCap, outbox, offers, sent>>

\* One iteration of the actor's loop: recv succeeds and the message is routed.
\* A panic in route starts to unwind out of the loop; the thread still holds
\* its Receiver, so the producers can still send.
ActorHandle ==
    /\ pc = "recv"
    /\ inbox # <<>>
    /\ \E rcv \in {channel_recv(inbox)} :
       \E r \in {route(rcv.message, state, now, NewOfferId)} :
           /\ inbox' = rcv.chan
           /\ state' = r.state
           /\ pending' = r.offer
           /\ pc' = IF r.result = "Some" THEN "send"
                    ELSE IF r.result = "Panic" THEN "panicked" ELSE "recv"
           /\ log' = Append(log, LogEntry("route", rcv.message, state, r.state,
                                          r.result, r.offer, <<>>))
    /\ UNCHANGED <<now, inputOpen, outputOpen, outCap, outbox, offers, sent>>

\* The panic has unwound out of the thread's closure, which drops the
\* Receiver it had captured: the thread has ended and a send fails from now on.
\* (route panics only at the limits of Decimal, which the values of
\* SpecActorLimits reach; it is a step of that specification.)
ActorUnwound ==
    /\ pc = "panicked"
    /\ pc' = "stopped"
    /\ UNCHANGED <<now, inbox, inputOpen, outputOpen, state, pending, outCap,
                   outbox, offers, sent, log>>

\* recv fails: the channel is empty and every sender is gone.
ActorInputDied ==
    /\ pc = "recv"
    /\ inbox = <<>>
    /\ ~inputOpen
    /\ pc' = "stopped"
    /\ UNCHANGED <<now, inbox, inputOpen, outputOpen, state, pending, outCap,
                   outbox, offers,
                   sent, log>>

\* output.send succeeds: a channel without capacity hands the offer to the
\* consumer, a channel with room keeps it until the consumer takes it.
ActorEmit ==
    /\ pc = "send"
    /\ outputOpen
    /\ IF outCap = 0
       THEN /\ offers' = offers \o pending
            /\ outbox' = outbox
       ELSE /\ Len(outbox) < outCap
            /\ outbox' = outbox \o pending
            /\ offers' = offers
    /\ pending' = <<>>
    /\ pc' = "recv"
    /\ UNCHANGED <<now, inbox, inputOpen, outputOpen, state, outCap, sent, log>>

\* output.send fails and the loop goes on to the next message.
ActorOutputDied_continue ==
    /\ pc = "send"
    /\ ~outputOpen
    /\ pending' = <<>>
    /\ pc' = "recv"
    /\ UNCHANGED <<now, inbox, inputOpen, outputOpen, state, outCap, outbox,
                   offers, sent, log>>

\* output.send fails: the consumer is gone.
ActorOutputDied ==
    /\ pc = "send"
    /\ ~outputOpen
    /\ pending' = <<>>
    /\ pc' = "stopped"
    /\ UNCHANGED <<now, inbox, inputOpen, outputOpen, state, outCap, outbox,
                   offers, sent, log>>

\* The consumer takes the offer at the front of the outbound channel.
ConsumerRecv ==
    /\ outputOpen
    /\ outbox # <<>>
    /\ offers' = Append(offers, Head(outbox))
    /\ outbox' = Tail(outbox)
    /\ UNCHANGED <<now, inbox, inputOpen, outputOpen, pc, state, pending,
                   outCap, sent, log>>

\* Every producer drops its Sender.
CloseInput ==
    /\ inputOpen
    /\ inputOpen' = FALSE
    /\ UNCHANGED <<now, inbox, outputOpen, pc, state, pending, outCap,
                   outbox, offers, sent, log>>

\* The consumer drops its Receiver.
CloseOutput ==
    /\ outputOpen
    /\ outputOpen' = FALSE
    /\ UNCHANGED <<now, inbox, inputOpen, pc, state, pending, outCap, outbox,
                   offers, sent, log>>

\* A minute passes.
Tick ==
    /\ now < MaxTime
    /\ now' = now + 1
    /\ UNCHANGED <<inbox, inputOpen, outputOpen, pc, state, pending, outCap,
                   outbox, offers,
                   sent, log>>

Next ==
    \/ BuyerSend
    \/ TrendSend
    \/ ActorHandle
    \/ ActorInputDied
    \/ ActorEmit
    \/ ConsumerRecv
    \/ ActorOutputDied
    \/ CloseInput
    \/ CloseOutput
    \/ Tick

Spec == Init /\ [][Next]_vars

\* ------------------------------------------------- the functions on their own
\* A ledger is filled by push and then called directly, as the unit tests of
\* seller.rs and models.rs do; the actor stands by.
OnlyPushes == \A i \in 1..Len(log) : log[i].op = "push"
Calls == Len(SelectSeq(log, LAMBDA e : e.op # "push"))

CallPush ==
    /\ OnlyPushes
    /\ Len(log) < MaxLedger
    /\ \E b \in LedgerPurchases :
        LET purchase == Purchase(NewPurchaseId, DecNew(b[1][1], b[1][2]),
                                 DecNew(b[2][1], b[2][2]))
            after == [state EXCEPT !.account = push(state.account, purchase)]
        IN  /\ state' = after
            /\ log' = Append(log, LogEntry("push", NewPurchase(purchase), state,
                                           after, "None", <<>>, <<>>))
    /\ UNCHANGED <<now, inbox, inputOpen, outputOpen, pc, pending, outCap,
                   outbox, offers, sent>>

CallCollect ==
    /\ Calls < MaxCalls
    /\ \E t \in Trends :
        \E r \in {collect_profit(state.account, Dec(t), state.fee,
                                 state.min_margin, NewOfferId)} :
            /\ state' = [state EXCEPT !.account = r.account]
            /\ log' = Append(log, LogEntry("collect", TrendReading(Dec(t), now),
                                           state,
                                           [state EXCEPT !.account = r.account],
                                           IF r.panicked THEN "Panic"
                                           ELSE IF r.offer = <<>> THEN "None"
                                           ELSE "Some",
                                           r.offer, <<>>))
    /\ UNCHANGED <<now, inbox, inputOpen, outputOpen, pc, pending, outCap,
                   outbox, offers, sent>>

CallPop ==
    /\ Calls < MaxCalls
    /\ LET r == pop(state.account)
           after == [state EXCEPT !.account = r.data]
       IN  /\ state' = after
           /\ log' = Append(log, LogEntry("pop", [type |-> "Pop"], state, after,
                                          "None", <<>>, r.item))
    /\ UNCHANGED <<now, inbox, inputOpen, outputOpen, pc, pending, outCap,
                   outbox, offers, sent>>

NextCollect ==
    \/ CallPush
    \/ CallCollect
    \/ CallPop

\* PurchaseAccount::default() and the fee and min_margin of the calls.
InitCollect ==
    /\ now = 0
    /\ inbox = <<>>
    /\ inputOpen = TRUE
    /\ outputOpen = TRUE
    /\ pc = "recv"
    /\ \E f \in {FeeNone} \cup {FeePercentage(Dec(p)) : p \in FeePercents},
          mm \in {Dec(m) : m \in MinMargins} :
            state = State(<<>>, f, mm)
    /\ pending = <<>>
    /\ outCap = 0
    /\ outbox = <<>>
    /\ offers = <<>>
    /\ sent = <<>>
    /\ log = <<>>

SpecCollect == InitCollect /\ [][NextCollect]_vars

\* ------------------------------------------------ at the limits of Decimal
\* Purchases and rates at the two ends of what a Decimal holds: the smallest
\* quantity, 10^-28, bought at 1 and at 0.1; one bitcoin bought at 1; and the
\* largest quantity, Decimal::MAX, bought at 2.  The current rate is 2 or 0.2.
LimitPurchases ==
    {<<DecNew(1, 28), Dec(1)>>, <<DecNew(1, 28), DecNew(1, 1)>>,
     <<Dec(1), Dec(1)>>, <<DecMAX, Dec(2)>>}
LimitTrends == {Dec(2), DecNew(2, 1)}

\* account.push of such a purchase.
LimitPush ==
    /\ OnlyPushes
    /\ Len(log) < MaxLedger
    /\ \E b \in LimitPurchases :
        LET purchase == Purchase(NewPurchaseId, b[1], b[2])
            after == [state EXCEPT !.account = push(state.account, purchase)]
        IN  /\ state' = after
            /\ log' = Append(log, LogEntry("push", NewPurchase(purchase), state,
                                           after, "None", <<>>, <<>>))
    /\ UNCHANGED <<now, inbox, inputOpen, outputOpen, pc, pending, outCap,
                   outbox, offers, sent>>

\* collect_profit on the ledger at such a rate.
LimitCollect ==
    /\ Calls < MaxCalls
    /\ \E t \in LimitTrends :
        \E r \in {collect_profit(state.account, t, state.fee,
                                 state.min_margin, NewOfferId)} :
            /\ state' = [state EXCEPT !.account = r.account]
            /\ log' = Append(log, LogEntry("collect", TrendReading(t, now),
                                           state,
                                           [state EXCEPT !.account = r.account],
                                           IF r.panicked THEN "Panic"
                                           ELSE IF r.offer = <<>> THEN "None"
                                           ELSE "Some",
                                           r.offer, <<>>))
    /\ UNCHANGED <<now, inbox, inputOpen, outputOpen, pc, pending, outCap,
                   outbox, offers, sent>>

\* purchase.margin and purchase.margin_after_fee of such a purchase at such a
\* rate; item holds the two values returned.
LimitMargin ==
    /\ Calls < MaxCalls
    /\ \E b \in LimitPurchases, trend \in LimitTrends :
        LET purchase == Purchase(0, b[1], b[2])
        IN  log' = Append(log, LogEntry("margin_after_fee",
                              [type |-> "Margin", purchase |-> purchase,
                               current_trend |-> trend],
                              state, state, "None", <<>>,
                              <<margin(purchase, trend),
                                margin_after_fee(purchase, trend, state.fee)>>))
    /\ UNCHANGED <<now, inbox, inputOpen, outputOpen, pc, state, pending,
                   outCap, outbox, offers, sent>>

NextLimits ==
    \/ LimitPush
    \/ LimitCollect
    \/ LimitMargin
    \/ CallPop

SpecLimits == InitCollect /\ [][NextLimits]_vars

\* The actor fed such purchases and readings.  The consumer keeps receiving:
\* it never drops its Receiver, and takes an offer the actor is sending.  The
\* actor's thread keeps running: a step of its loop that stays possible is
\* taken.
LimitReadings == {<<Dec(2), 0>>, <<DecNew(2, 1), 0>>, <<Dec(2), 5>>}

LimitBuyerSend ==
    \E b \in LimitPurchases :
        Send(NewPurchase(Purchase(NewPurchaseId, b[1], b[2])))

LimitTrendSend ==
    \E r \in LimitReadings : Send(TrendReading(r[1], now - r[2]))

\* ActorHandle is possible exactly when the actor is at recv and a message is
\* queued: route is total.
HandleEnabled == pc = "recv" /\ inbox # <<>>

\* Weak fairness of ActorHandle, with its enabling condition written out, and
\* of the actor's other steps.
Fairness ==
    /\ ([]<>(~HandleEnabled)) \/ ([]<><<ActorHandle>>_vars)
    /\ WF_vars(ActorInputDied)
    /\ WF_vars(ActorUnwound)
    /\ WF_vars(ActorEmit)
    /\ WF_vars(ConsumerRecv)

NextActorLimits ==
    \/ LimitBuyerSend
    \/ LimitTrendSend
    \/ ActorHandle
    \/ ActorUnwound
    \/ ActorInputDied
    \/ ActorEmit
    \/ ConsumerRecv
    \/ CloseInput
    \/ Tick

SpecActorLimits == Init /\ [][NextActorLimits]_vars /\ Fairness

\* ===================================================================== claims
\* The fee as a percentage, none being 0%.
FeePercent(f) == IF f.kind = "Percentage" THEN f.p ELSE Dec(0)

\* Whole numbers of any size with a sign, for the arithmetic of the
\* specification, which is exact.
Whole(neg, mag) == [neg |-> neg /\ mag # <<>>, mag |-> mag]
IntOf(d, e) == Whole(d.neg, Units(d, e))
IntPow10(k) == Whole(FALSE, ScaleUp(<<1>>, k))
IntMul(a, b) == Whole(a.neg # b.neg, BigMul(a.mag, b.mag))
IntSub(a, b) ==
    IF a.neg # b.neg THEN Whole(a.neg, BigAdd(a.mag, b.mag))
    ELSE IF BigCmp(a.mag, b.mag) >= 0 THEN Whole(a.neg, BigSub(a.mag, b.mag))
    ELSE Whole(~a.neg, BigSub(b.mag, a.mag))
IntLt(a, b) ==
    IF a.neg # b.neg THEN a.neg
    ELSE IF a.neg THEN BigCmp(a.mag, b.mag) > 0
    ELSE BigCmp(a.mag, b.mag) < 0
IntPos(a) == ~a.neg /\ a.mag # <<>>

\* The threshold as the specification words it.  With quantity b, buy rate
\* r, current rate t, fee p% and minimum margin mm%,
\*     b*(t - r) * (100 - p)/100  >  b*r * mm/100;
\* Gross is b*(t - r) and Paid is b*r, both in units of one scale, and the two
\* sides are multiplied by 100 and by the powers of ten that make p and mm
\* whole.
Gross(p, rate) ==
    LET e == MaxScale(p.rate, rate)
    IN  IntMul(IntOf(p.btc, p.btc.e), IntSub(IntOf(rate, e), IntOf(p.rate, e)))
Paid(p, rate) ==
    IntMul(IntOf(p.btc, p.btc.e), IntOf(p.rate, MaxScale(p.rate, rate)))
NetTimes100(p, rate, f, mm) ==
    LET fp == FeePercent(f)
    IN  IntMul(IntMul(Gross(p, rate),
                      IntSub(IntPow10(fp.e + 2), IntOf(fp, fp.e))),
               IntPow10(mm.e))
RequiredTimes100(p, rate, f, mm) ==
    IntMul(IntMul(Paid(p, rate), IntOf(mm, mm.e)), IntPow10(FeePercent(f).e))
Passes(p, rate, st) ==
    IntLt(RequiredTimes100(p, rate, st.fee, st.min_margin),
          NetTimes100(p, rate, st.fee, st.min_margin))
AtThreshold(p, rate, st) ==
    NetTimes100(p, rate, st.fee, st.min_margin) =
        RequiredTimes100(p, rate, st.fee, st.min_margin)

Range(s) == {s[i] : i \in 1..Len(s)}
Ids(s) == {s[i].id : i \in 1..Len(s)}
NonDecreasing(s) ==
    \A i \in 1..Len(s) - 1 : DecLe(s[i].rate, s[i + 1].rate)
Entries == 1..Len(log)

IsReading(e) == e.msg.type = "TrendReading"
Age(e) == e.at - e.msg.observed_at
\* A reading older than five minutes when the actor processed it.
IsStale(e) == e.op = "route" /\ IsReading(e) /\ Age(e) > 5
\* A reading the profit collector evaluated.
IsEvaluated(e) ==
    \/ e.op = "collect"
    \/ e.op = "route" /\ IsReading(e) /\ Age(e) <= 5
\* The purchases an entry sold, and the offers built before entry i.
Sold(e) == IF e.offer = <<>> THEN <<>> ELSE e.offer[1].purchases
SoldBefore(i) == UNION {Ids(Sold(log[k])) : k \in 1..(i - 1)}
\* The smallest quantity a Decimal holds, 10^-28.
Tiny == DecNew(1, 28)

\* Every offer handed to the outbound channel so far.
Emitted == offers \o outbox \o pending

\* C1: a TrendReading older than 5 minutes when the actor processes it yields
\* no Offer: route returns an error for it, and every Offer on the outbound
\* stream was built for a reading that was not stale.
C1_StaleNeverOffers ==
    /\ \A i \in Entries : IsStale(log[i]) =>
            log[i].offer = <<>> /\ log[i].result = "Err"
    /\ \A k \in 1..Len(Emitted) :
            \E i \in Entries : ~IsStale(log[i]) /\ log[i].offer = <<Emitted[k]>>

\* A stale reading was processed at a rate at which the best purchase of the
\* ledger passes the threshold.
C1_Witness ==
    \E i \in Entries :
        /\ IsStale(log[i])
        /\ log[i].before.account # <<>>
        /\ Passes(log[i].before.account[1], log[i].msg.current_trend,
                  log[i].before)

\* C2: a stale reading is a recoverable error.  Processing it leaves the
\* State (ledger, fee, min_margin) as it was and the actor goes back to
\* receiving: the next message is processed on the same State, and the next
\* reading that is evaluated sells every purchase that was in the ledger when
\* the stale reading arrived and passes the threshold at the new rate.
C2_StaleIsRecoverable ==
    \A i \in Entries : IsStale(log[i]) =>
        /\ log[i].result = "Err"
        /\ log[i].after = log[i].before
        /\ state.fee = log[i].before.fee
        /\ state.min_margin = log[i].before.min_margin
        /\ i < Len(log) => log[i + 1].before = log[i].before
        /\ i = Len(log) =>
              /\ pc # "send"
              /\ state = log[i].before
              /\ pc = "stopped" => inbox = <<>> /\ ~inputOpen
        /\ inbox # <<>> => pc # "stopped" \/ ~outputOpen
        /\ \A j \in (i + 1)..Len(log) :
              (/\ IsEvaluated(log[j])
               /\ \A k \in (i + 1)..(j - 1) : ~IsEvaluated(log[k]))
              => \A p \in Range(log[i].before.account) :
                    Passes(p, log[j].msg.current_trend, log[j].before)
                    => p \in Range(Sold(log[j]))

\* A stale reading met a purchase of 10^-28 btc in the ledger; the next
\* reading was evaluated at a rate at which that purchase passes the
\* threshold, and sold nothing.
C2_FailingInput ==
    \E i, j \in Entries :
        /\ i < j
        /\ IsStale(log[i])
        /\ IsEvaluated(log[j])
        /\ log[j].result = "None"
        /\ \E p \in Range(log[i].before.account) :
              /\ p.btc = Tiny
              /\ Passes(p, log[j].msg.current_trend, log[j].before)

\* The purchases put on the inbound channel before its i-th message.
SentBefore(i) ==
    {sent[k].purchase.id : k \in {n \in 1..(i - 1) : sent[n].type = "NewPurchase"}}

\* C3 as it is worded: the actor processes the inbound messages in the order
\* in which they were put on the channel, and when a fresh reading is
\* evaluated the ledger holds every purchase sent before it and no purchase
\* sent after it.  A purchase sent before the reading that an earlier reading
\* already sold into an Offer is not in the ledger (collect_profit pops it).
C3_AsStated ==
    /\ Len(log) <= Len(sent)
    /\ \A i \in Entries : log[i].msg = sent[i]
    /\ \A i \in Entries : IsEvaluated(log[i]) =>
            Ids(log[i].before.account) = SentBefore(i)

\* C3: the actor processes the inbound messages in the order in which the
\* buyer and the trend publisher put them on the channel: the i-th message
\* processed is the i-th message sent and the channel holds the rest in that
\* order.  Hence when a fresh reading is evaluated every purchase sent before
\* it is in the ledger unless the Offer of an earlier reading sold it, and no
\* purchase sent after it is in the ledger.
C3_CausalOrdering ==
    /\ Len(log) <= Len(sent)
    /\ \A i \in Entries : log[i].msg = sent[i]
    /\ inbox = SubSeq(sent, Len(log) + 1, Len(sent))
    /\ \A i \in Entries : IsEvaluated(log[i]) =>
            /\ Ids(log[i].before.account) \cup SoldBefore(i) = SentBefore(i)
            /\ Ids(log[i].before.account) \cap SoldBefore(i) = {}

\* A fresh reading was evaluated with a purchase sent before it in the ledger
\* while a purchase sent after it was already waiting in the channel.
C3_Witness ==
    \E i \in Entries :
        /\ IsEvaluated(log[i])
        /\ log[i].before.account # <<>>
        /\ Len(sent) > i
        /\ sent[i + 1].type = "NewPurchase"
        /\ sent[i + 1].purchase.id \notin Ids(log[i].after.account)

\* C4: every purchase of every Offer strictly passed the threshold at the
\* Offer's rate; a purchase whose net margin equals the required margin is
\* not sold.
C4_SoldStrictlyPasses ==
    \A i \in Entries : \A p \in Range(Sold(log[i])) :
        /\ Passes(p, log[i].offer[1].rate, log[i].before)
        /\ ~AtThreshold(p, log[i].offer[1].rate, log[i].before)

\* A collect sold a purchase of 10^-28 btc whose net margin equals the
\* required margin.
C4_FailingInput ==
    \E i \in Entries : \E p \in Range(Sold(log[i])) :
        /\ p.btc = Tiny
        /\ AtThreshold(p, log[i].offer[1].rate, log[i].before)

\* C5: collect stops at the first best purchase that fails the threshold.
\* The purchases it sold are the longest passing prefix of the ledger in
\* ascending rate order: each passes, they are in ascending rate order, none
\* has a higher rate than a purchase left behind, and the best purchase left
\* behind (the one peek shows, of the lowest rate) fails.  Every purchase not
\* sold is still in the ledger.
C5_LongestPassingPrefix ==
    \A i \in Entries : IsEvaluated(log[i]) =>
        LET before == log[i].before.account
            after == log[i].after.account
            sold == Sold(log[i])
            rate == log[i].msg.current_trend
        IN  /\ Range(before) = Range(sold) \cup Range(after)
            /\ Len(before) = Len(sold) + Len(after)
            /\ \A p \in Range(sold) : Passes(p, rate, log[i].before)
            /\ NonDecreasing(sold)
            /\ \A p \in Range(sold), q \in Range(after) : DecLe(p.rate, q.rate)
            /\ after # <<>> =>
                  /\ ~Passes(peek(after)[1], rate, log[i].before)
                  /\ \A q \in Range(after) : DecLe(peek(after)[1].rate, q.rate)

\* A collect returned and left a ledger whose best purchase passes the
\* threshold at the rate of the call.
C5_FailingInput ==
    \E i \in Entries :
        /\ log[i].op = "collect"
        /\ log[i].result # "Panic"
        /\ log[i].after.account # <<>>
        /\ Passes(peek(log[i].after.account)[1], log[i].msg.current_trend,
                  log[i].before)

\* C6: with purchases of positive quantity and rate, a fee below 100% (or
\* none) and a minimum margin of at least 0, collect_profit leaves no purchase
\* in the ledger whose net margin exceeds its required margin at that rate.
C6_NoProfitLeftBehind ==
    \A i \in Entries : IsEvaluated(log[i]) =>
        \A q \in Range(log[i].after.account) :
            ~Passes(q, log[i].msg.current_trend, log[i].before)

\* A collect at 0.2 returned nothing and left a purchase of 10^-28 btc bought
\* at 0.1, whose net margin exceeds its required margin.
C6_FailingInput ==
    \E i \in Entries :
        /\ log[i].op = "collect"
        /\ log[i].result = "None"
        /\ \E q \in Range(log[i].after.account) :
              /\ q.btc = Tiny
              /\ q.rate = DecNew(1, 1)
              /\ Passes(q, log[i].msg.current_trend, log[i].before)

\* C7: the ledger hands its purchases out by ascending buy rate.  After any
\* sequence of inserts, pop returns the purchase peek showed, which has the
\* lowest rate in the ledger, and removes exactly that purchase; repeated pops
\* return non-decreasing rates; after every call peek shows a purchase of the
\* lowest rate left.
C7_LedgerOrdering ==
    \A i \in Entries :
        LET before == log[i].before.account
            after == log[i].after.account
        IN  /\ after # <<>> =>
                  \A q \in Range(after) : DecLe(peek(after)[1].rate, q.rate)
            /\ log[i].op = "pop" =>
                  /\ log[i].item = peek(before)
                  /\ before = <<>> => after = <<>>
                  /\ before # <<>> =>
                        /\ \A q \in Range(before) : DecLe(log[i].item[1].rate, q.rate)
                        /\ Range(before) = Range(after) \cup Range(log[i].item)
                        /\ Len(after) = Len(before) - 1
                  /\ (i > 1 /\ log[i - 1].op = "pop" /\ log[i].item # <<>>)
                        => DecLe(log[i - 1].item[1].rate, log[i].item[1].rate)

\* Four purchases of at least three different rates were inserted and two
\* were popped one after the other.
C7_Witness ==
    \E i \in Entries :
        /\ i > 1
        /\ log[i].op = "pop"
        /\ log[i - 1].op = "pop"
        /\ Len(log[i - 1].before.account) = 4
        /\ Cardinality({p.rate : p \in Range(log[i - 1].before.account)}) >= 3

\* C8: the purchases of every Offer are listed by non-decreasing buy rate,
\* whatever the order in which they were inserted.
C8_OfferAscending ==
    \A i \in Entries : NonDecreasing(Sold(log[i]))

\* An Offer lists three purchases, one of which was inserted before another
\* of a lower rate.
C8_Witness ==
    \E i \in Entries :
        /\ Len(Sold(log[i])) >= 3
        /\ \E p, q \in Range(Sold(log[i])) : p.id < q.id /\ DecGt(p.rate, q.rate)

\* C9: when two fresh readings of the same rate are evaluated with nothing
\* but stale readings processed between them, the first yields an Offer
\* exactly if some purchase of the ledger passes the threshold, the purchases
\* it sold are gone from the ledger, and the second yields no Offer and leaves
\* the ledger as it is.
C9_CollectIdempotent ==
    \A i, j \in Entries :
        (/\ i < j
         /\ IsEvaluated(log[i])
         /\ IsEvaluated(log[j])
         /\ log[i].msg.current_trend = log[j].msg.current_trend
         /\ \A k \in (i + 1)..(j - 1) : IsStale(log[k]))
        => /\ log[i].offer # <<>> <=>
                \E p \in Range(log[i].before.account) :
                    Passes(p, log[i].msg.current_trend, log[i].before)
           /\ Ids(Sold(log[i])) \cap Ids(log[i].after.account) = {}
           /\ Ids(Sold(log[i])) \cap Ids(log[j].before.account) = {}
           /\ log[j].offer = <<>>
           /\ log[j].result = "None"
           /\ log[j].after = log[j].before

\* Two fresh readings of the same rate were evaluated in succession; a
\* purchase of the ledger passes the threshold at that rate, and the first
\* reading yielded no Offer.
C9_FailingInput ==
    \E i \in Entries :
        /\ i < Len(log)
        /\ log[i].op = "route"
        /\ IsEvaluated(log[i])
        /\ IsEvaluated(log[i + 1])
        /\ log[i].msg.current_trend = log[i + 1].msg.current_trend
        /\ log[i].result = "None"
        /\ \E p \in Range(log[i].before.account) :
              Passes(p, log[i].msg.current_trend, log[i].before)

\* The offers built so far, in the order in which they were built.
Built ==
    LET with == SelectSeq(log, LAMBDA e : e.offer # <<>>)
    IN  [k \in 1..Len(with) |-> with[k].offer[1]]

\* C10: a fresh reading yields an Offer exactly if it selected a purchase.
\* Each message yields at most one Offer, only an evaluated reading yields
\* one, its purchase list is not empty and its rate is the reading's
\* current_trend; the offers handed to the outbound channel are those, in
\* order (the last one is lost when the consumer is gone).
C10_OfferIffSelected ==
    /\ \A i \in Entries :
        /\ Len(log[i].offer) <= 1
        /\ log[i].result = "Some" <=> log[i].offer # <<>>
        /\ log[i].offer # <<>> =>
              /\ IsEvaluated(log[i])
              /\ log[i].offer[1].purchases # <<>>
              /\ log[i].offer[1].rate = log[i].msg.current_trend
        /\ IsEvaluated(log[i]) =>
              (log[i].offer # <<>> <=>
                 Len(log[i].after.account) < Len(log[i].before.account))
    /\ \A k \in 1..Len(Emitted) : Emitted[k].purchases # <<>>
    /\ \/ Emitted = Built
       \/ /\ pc = "stopped"
          /\ ~outputOpen
          /\ Built # <<>>
          /\ Emitted = SubSeq(Built, 1, Len(Built) - 1)

\* A fresh reading selected a purchase, which left the ledger, and no Offer
\* was emitted for it.
C10_FailingInput ==
    \E i \in Entries :
        /\ log[i].op = "route"
        /\ IsEvaluated(log[i])
        /\ Len(log[i].after.account) < Len(log[i].before.account)
        /\ log[i].offer = <<>>
        /\ Emitted = <<>>

\* A NewPurchase message the actor processed.
IsInsert(e) == e.op = "route" /\ e.msg.type = "NewPurchase"

\* C11: processing a NewPurchase adds exactly that purchase to the ledger:
\* the purchases held before stay, fee and min_margin stay, route returns
\* Ok(None) and nothing is handed to the outbound channel.
C11_NewPurchaseOnlyInserts ==
    \A i \in Entries : IsInsert(log[i]) =>
        LET before == log[i].before
            after == log[i].after
        IN  /\ Len(after.account) = Len(before.account) + 1
            /\ Range(after.account) =
                   Range(before.account) \cup {log[i].msg.purchase}
            /\ log[i].msg.purchase.id \notin Ids(before.account)
            /\ after.fee = before.fee
            /\ after.min_margin = before.min_margin
            /\ log[i].result = "None"
            /\ log[i].offer = <<>>
            /\ i = Len(log) =>
                  /\ pc # "send"
                  /\ pending = <<>>
                  /\ state = after
                  /\ Len(offers) + Len(outbox) =
                         Len(SelectSeq(SubSeq(log, 1, i - 1),
                                                 LAMBDA e : e.offer # <<>>))
                     \/ (pc = "stopped" /\ ~outputOpen)

\* A purchase was inserted that passes the threshold at the rate of the fresh
\* reading evaluated just before it, next to a purchase of the same rate.
C11_Witness ==
    \E i \in Entries :
        /\ i > 1
        /\ IsInsert(log[i])
        /\ IsEvaluated(log[i - 1])
        /\ Passes(log[i].msg.purchase, log[i - 1].msg.current_trend,
                  log[i].before)
        /\ i = Len(log)

\* Any step of the actor's loop.
ActorStep ==
    \/ ActorHandle
    \/ ActorInputDied
    \/ ActorEmit
    \/ ActorOutputDied
    \/ ActorUnwound

\* An Offer was built and neither reached the consumer nor is waiting to:
\* its emission failed.
Lost == Len(offers) + Len(outbox) + Len(pending) < Len(Built)

\* The messages the actor has processed are the first ones sent, in order.
ProcessedInOrder ==
    /\ Len(log) <= Len(sent)
    /\ \A i \in Entries : log[i].op = "route" /\ log[i].msg = sent[i]

\* C12: once every inbound sender is gone the actor processes all messages
\* sent before the closure, in the order sent, and then its loop ends and
\* never takes another step; it does not end while a message is unprocessed.
C12_InboundClosureTerminates ==
    /\ ProcessedInOrder
    /\ inbox = SubSeq(sent, Len(log) + 1, Len(sent))
    /\ (~inputOpen /\ inbox # <<>>) => ~ENABLED ActorInputDied
    /\ (~inputOpen /\ inbox = <<>> /\ pc = "recv") =>
          /\ ENABLED ActorInputDied
          /\ ~ENABLED ActorHandle
    /\ (pc = "stopped" /\ ~Lost) =>
          /\ ~inputOpen
          /\ inbox = <<>>
          /\ Len(log) = Len(sent)
    /\ pc = "stopped" => ~ENABLED ActorStep

\* The senders went away while messages were waiting; the actor stopped at a
\* reading before it had processed them all, the consumer still being there.
C12_FailingInput ==
    /\ pc = "stopped"
    /\ ~inputOpen
    /\ outputOpen
    /\ inbox # <<>>
    /\ log # <<>>
    /\ log[Len(log)].result = "Panic"

\* C13: when emitting an Offer fails because the consumer is gone the loop
\* ends at once: the Offer is not emitted later, and the TrendReading that
\* produced it is the last message the actor ever processes.
C13_OutboundFailureTerminates ==
    /\ (pc = "send" /\ ~outputOpen) =>
          /\ ENABLED ActorOutputDied
          /\ ~ENABLED ActorEmit
          /\ ~ENABLED ActorHandle
    /\ Lost =>
          /\ pc = "stopped"
          /\ ~outputOpen
          /\ pending = <<>>
          /\ ~ENABLED ActorStep
          /\ Len(offers) + Len(outbox) = Len(Built) - 1
          /\ Built[Len(Built)] \notin Range(offers) \cup Range(outbox)
          /\ IsEvaluated(log[Len(log)])
          /\ log[Len(log)].offer = <<Built[Len(Built)]>>
          /\ inbox = SubSeq(sent, Len(log) + 1, Len(sent))

\* An emission failed while the senders were still there and a message was
\* waiting in the inbound channel; that message stays unprocessed.
C13_Witness ==
    /\ Lost
    /\ inputOpen
    /\ inbox # <<>>
    /\ Len(log) < Len(sent)

\* C14: the actor has stopped only if the inbound channel was closed and
\* empty or an emission failed; after a stale reading, a reading that sold
\* nothing or a NewPurchase it is still receiving.
C14_OnlyTwoTerminalConditions ==
    /\ pc = "stopped" =>
          \/ ~inputOpen /\ inbox = <<>> /\ ~Lost
          \/ ~outputOpen /\ Lost
    /\ (log # <<>> /\ log[Len(log)].offer = <<>>
            /\ (inputOpen \/ inbox # <<>>)) => pc = "recv"
    /\ pc \in {"recv", "send", "stopped"}

\* The actor stopped at a reading while the senders and the consumer were
\* there and no emission had failed.
C14_FailingInput ==
    /\ pc = "stopped"
    /\ inputOpen
    /\ outputOpen
    /\ ~Lost
    /\ log # <<>>
    /\ log[Len(log)].result = "Panic"
    /\ IsReading(log[Len(log)])

\* The purchase records of the NewPurchase messages the actor has processed.
Introduced == {log[i].msg.purchase : i \in {k \in Entries : IsInsert(log[k])}}

\* The purchase has the id, quantity and rate it was introduced with.
AsIntroduced(p) ==
    \E q \in Introduced : q.id = p.id /\ q.btc = p.btc /\ q.rate = p.rate

\* C18: every purchase held in the ledger or listed in an Offer has the id,
\* quantity and rate of the NewPurchase message that introduced it, and the
\* actor's fee and min_margin are those it was spawned with.
C18_PurchasesImmutable ==
    /\ \A p, q \in Introduced : p.id = q.id => p = q
    /\ \A k \in 1..Len(state.account) : AsIntroduced(state.account[k])
    /\ \A o \in 1..Len(Built) : \A k \in 1..Len(Built[o].purchases) :
          AsIntroduced(Built[o].purchases[k])
    /\ \A o \in 1..Len(Emitted) : Emitted[o] \in Range(Built)
    /\ \A i \in Entries :
          /\ log[i].before.fee = state.fee
          /\ log[i].after.fee = state.fee
          /\ log[i].before.min_margin = state.min_margin
          /\ log[i].after.min_margin = state.min_margin
    /\ [fee |-> state.fee, min_margin |-> state.min_margin] \in SpawnArgs

\* An Offer sold a purchase at a rate other than its buy rate, it reached the
\* consumer, and another purchase is still held in the ledger.
C18_Witness ==
    /\ state.account # <<>>
    /\ \E o \in 1..Len(offers) :
          /\ offers[o].purchases # <<>>
          /\ offers[o].purchases[1].rate # offers[o].rate
          /\ offers[o].purchases[1] \in Introduced

\* ------------------------------------------------ the actor and the clock
\* The actor fed by producers whose sends are logged with the time of the
\* send, and whose readings carry timestamps from before, at and after the
\* time of the send.
ClockAges == {-1, 0, 5, 6}
ClockTrends == {4}

\* A producer's send of one message, logged.
ClockSend(message) ==
    /\ inputOpen
    /\ pc # "stopped"
    /\ Len(sent) < MaxMsgs
    /\ Len(inbox) < MaxInbox
    /\ inbox' = channel_send(inbox, message)
    /\ sent' = Append(sent, message)
    /\ log' = Append(log, LogEntry("send", message, state, state, "None",
                                   <<>>, <<>>))
    /\ UNCHANGED <<now, inputOpen, outputOpen, pc, state, pending, outCap,
                   outbox, offers>>

ClockBuyerSend ==
    \E b \in BuyerBtcs :
        ClockSend(NewPurchase(Purchase(NewPurchaseId, DecNew(b[1], b[2]),
                                       Dec(1))))

ClockTrendSend ==
    \E t \in ClockTrends, a \in ClockAges :
        ClockSend(TrendReading(Dec(t), now - a))

NextClock ==
    \/ ClockBuyerSend
    \/ ClockTrendSend
    \/ ActorHandle
    \/ ActorEmit
    \/ Tick

\* The outbound channel is a rendezvous channel, as in the tests.
InitClock == Init /\ outCap = 0

SpecClock == InitClock /\ [][NextClock]_vars

\* The sends and the routed messages of the log, each in order: the k-th
\* routed message is the k-th message sent.
Sends == SelectSeq(log, LAMBDA e : e.op = "send")
Routes == SelectSeq(log, LAMBDA e : e.op = "route")
Routed == 1..Len(Routes)

\* C17: whether a reading is stale depends only on its observed_at and on the
\* clock when the actor processes it: two readings with the same observed_at
\* processed at the same instant get the same decision, whenever each was
\* enqueued; and the actor waiting for a message or for the consumer is not
\* stopped by the passing of time.
C17_StalenessFromTimestampOnly ==
    /\ LET sends == Sends
           routes == Routes
       IN  /\ Len(sends) = Len(sent)
           /\ \A k \in 1..Len(routes) :
                 routes[k].msg = sends[k].msg /\ sends[k].at <= routes[k].at
           /\ \A i, j \in 1..Len(routes) :
                 (/\ IsReading(routes[i])
                  /\ IsReading(routes[j])
                  /\ routes[i].msg.observed_at = routes[j].msg.observed_at
                  /\ routes[i].at = routes[j].at)
                 => (routes[i].result = "Err" <=> routes[j].result = "Err")
    /\ pc # "stopped"
    /\ (pc = "recv" /\ inbox = <<>>) => ~ENABLED ActorStep
    /\ pc = "send" => (pending # <<>> /\ ~ENABLED ActorOutputDied)

\* Two readings with the same observed_at were enqueued a minute apart, the
\* first while it was still fresh, and processed at the same instant: both
\* were discarded as stale.
C17_Witness ==
    \E i, j \in Routed :
        /\ IsReading(Routes[i])
        /\ IsReading(Routes[j])
        /\ Routes[i].msg.observed_at = Routes[j].msg.observed_at
        /\ Routes[i].at = Routes[j].at
        /\ Sends[i].at < Sends[j].at
        /\ Sends[i].at - Routes[i].msg.observed_at <= _5MIN
        /\ Routes[i].result = "Err"
        /\ Routes[j].result = "Err"

\* C19: a TrendReading is discarded exactly when the clock at processing
\* minus its observed_at is strictly greater than 5 minutes; at exactly
\* 5 minutes, or with an observed_at that is not in the past, the Profit
\* Collector evaluates it: the ledger it leaves and the purchases it sells
\* are those of collect_profit on the ledger it met (compared in the state
\* where the reading is the last one routed: the log never changes an entry).
C19_StalenessBoundary ==
    LET routes == Routes IN
    \A k \in 1..Len(routes) : IsReading(routes[k]) =>
        LET e == routes[k]
        IN  /\ e.result = "Err" <=> e.at - e.msg.observed_at > 5
            /\ e.at - e.msg.observed_at > 5 =>
                  /\ e.after = e.before
                  /\ e.offer = <<>>
            /\ (e.at - e.msg.observed_at <= 5 /\ k = Len(routes)) =>
                  LET r == collect_profit(e.before.account, e.msg.current_trend,
                                          e.before.fee, e.before.min_margin,
                                          0)
                  IN  /\ e.result # "Err"
                      /\ e.after.account = r.account
                      /\ Sold(e) = IF r.offer = <<>> THEN <<>>
                                   ELSE r.offer[1].purchases

\* A reading aged 6 minutes was discarded while the ledger held a purchase
\* that passes; a reading aged exactly 5 minutes then sold that purchase.
C19_Witness ==
    \E i, j \in Routed :
        /\ IsReading(Routes[i])
        /\ Age(Routes[i]) = 6
        /\ Routes[i].result = "Err"
        /\ Routes[i].before.account # <<>>
        /\ IsReading(Routes[j])
        /\ Age(Routes[j]) = 5
        /\ Routes[j].offer # <<>>

\* A reading stamped later than the clock at processing was evaluated and sold
\* a purchase.
C19_FutureStampReached ==
    \E i \in Routed :
        /\ IsReading(Routes[i])
        /\ Age(Routes[i]) < 0
        /\ Routes[i].offer # <<>>

\* ------------------------------------------------ the reference scenarios
\* The ledger, fees, margins and rates of the unit tests of seller.rs and
\* models.rs, called directly as the tests do.
ScenarioPurchases == {<<5, 450>>, <<1, 900>>, <<5, 1000>>}
ScenarioTrends == {400, 1000}
ScenarioFees == {FeeNone, FeePercentage(Dec(1)), FeePercentage(Dec(10))}
ScenarioMargins == {5, 20, 100}
\* Quantity in hundredths of a bitcoin, buy rate and current rate.
MarginCases ==
    {<<175, 8000, 10000>>, <<500, 100, 50>>, <<200, 100, 1000>>,
     <<200, 100, 50>>, <<175, 8000, 1000>>, <<175, 8000, 8001>>,
     <<175, 8000, 7999>>}

InitScenario ==
    /\ now = 0
    /\ inbox = <<>>
    /\ inputOpen = TRUE
    /\ outputOpen = TRUE
    /\ pc = "recv"
    /\ \E f \in ScenarioFees, mm \in ScenarioMargins :
            state = State(<<>>, f, Dec(mm))
    /\ pending = <<>>
    /\ outCap = 0
    /\ outbox = <<>>
    /\ offers = <<>>
    /\ sent = <<>>
    /\ log = <<>>

\* account.push of a reference purchase not pushed before.
ScenarioPush ==
    /\ OnlyPushes
    /\ \E s \in ScenarioPurchases :
        /\ \A i \in 1..Len(log) : log[i].msg.purchase.rate # Dec(s[2])
        /\ LET purchase == Purchase(NewPurchaseId, Dec(s[1]), Dec(s[2]))
               after == [state EXCEPT !.account = push(state.account, purchase)]
           IN  /\ state' = after
               /\ log' = Append(log, LogEntry("push", NewPurchase(purchase),
                                              state, after, "None", <<>>, <<>>))
    /\ UNCHANGED <<now, inbox, inputOpen, outputOpen, pc, pending, outCap,
                   outbox, offers, sent>>

\* collect_profit on the ledger at a reference rate.
ScenarioCollect ==
    /\ Calls < MaxCalls
    /\ \E t \in ScenarioTrends :
        \E r \in {collect_profit(state.account, Dec(t), state.fee,
                                 state.min_margin, NewOfferId)} :
            /\ state' = [state EXCEPT !.account = r.account]
            /\ log' = Append(log, LogEntry("collect", TrendReading(Dec(t), now),
                                           state,
                                           [state EXCEPT !.account = r.account],
                                           IF r.panicked THEN "Panic"
                                           ELSE IF r.offer = <<>> THEN "None"
                                           ELSE "Some",
                                           r.offer, <<>>))
    /\ UNCHANGED <<now, inbox, inputOpen, outputOpen, pc, pending, outCap,
                   outbox, offers, sent>>

\* purchase.margin and purchase.margin_after_fee of a purchase made up for
\* the call; item holds the two values returned.
ScenarioMargin ==
    /\ Calls < MaxCalls
    /\ \E c \in MarginCases :
        LET purchase == Purchase(0, DecNew(c[1], 2), Dec(c[2]))
            trend == Dec(c[3])
        IN  log' = Append(log, LogEntry("margin_after_fee",
                              [type |-> "Margin", purchase |-> purchase,
                               current_trend |-> trend],
                              state, state, "None", <<>>,
                              <<margin(purchase, trend),
                                margin_after_fee(purchase, trend, state.fee)>>))
    /\ UNCHANGED <<now, inbox, inputOpen, outputOpen, pc, state, pending,
                   outCap, outbox, offers, sent>>

NextScenario ==
    \/ ScenarioPush
    \/ ScenarioCollect
    \/ ScenarioMargin

SpecScenario == InitScenario /\ [][NextScenario]_vars

\* The rates of a sequence of purchases, in order.
RatesOf(s) == [k \in 1..Len(s) |-> s[k].rate]
\* The ledger holds the three reference purchases.
ReferenceLedger(acc) ==
    /\ Len(acc) = 3
    /\ {<<acc[k].btc, acc[k].rate>> : k \in 1..3} =
           {<<Dec(s[1]), Dec(s[2])>> : s \in ScenarioPurchases}

\* C15: on the ledger {(5, 450), (1, 900), (5, 1000)} with a fee of 1%,
\* collect at 1000 with min_margin 20% offers the rate-450 purchase only; at
\* 1000 with min_margin 5% it offers rate-450 then rate-900; at 400 with
\* min_margin 5% or more it offers nothing and leaves the ledger as it was.
C15_ReferenceScenarios ==
    \A i \in Entries :
        (/\ log[i].op = "collect"
         /\ ReferenceLedger(log[i].before.account)
         /\ log[i].before.fee = FeePercentage(Dec(1)))
        => LET e == log[i]
               t == e.msg.current_trend
               mm == e.before.min_margin
           IN  /\ (t = Dec(1000) /\ mm = Dec(20)) =>
                     /\ e.result = "Some"
                     /\ RatesOf(Sold(e)) = <<Dec(450)>>
                     /\ Sold(e)[1].btc = Dec(5)
                     /\ {p.rate : p \in Range(e.after.account)} =
                            {Dec(900), Dec(1000)}
               /\ (t = Dec(1000) /\ mm = Dec(5)) =>
                     /\ e.result = "Some"
                     /\ RatesOf(Sold(e)) = <<Dec(450), Dec(900)>>
                     /\ {p.rate : p \in Range(e.after.account)} = {Dec(1000)}
               /\ (t = Dec(400) /\ DecGe(mm, Dec(5))) =>
                     /\ e.result = "None"
                     /\ e.offer = <<>>
                     /\ e.after = e.before

\* With a fee of 1% and min_margin 5% the reference ledger was collected at
\* 400, which sold nothing, and then at 1000, which sold two purchases.
C15_Witness ==
    /\ Len(log) = 5
    /\ state.fee = FeePercentage(Dec(1))
    /\ state.min_margin = Dec(5)
    /\ ReferenceLedger(log[4].before.account)
    /\ log[4].op = "collect" /\ log[4].msg.current_trend = Dec(400)
    /\ log[5].op = "collect" /\ log[5].msg.current_trend = Dec(1000)
    /\ Len(Sold(log[5])) = 2

\* A call of margin and margin_after_fee.
IsMarginCall(e) == e.op = "margin_after_fee"

\* C16: the gross margin is quantity*current_rate - quantity*rate, negative
\* below the buy rate; the net margin is gross - (gross/100)*p under
\* Fee::Percentage(p), which is to say net*100 = gross*(100 - p), and the
\* gross margin under Fee::None; 2 btc bought at 100 sold at 1000 under a fee
\* of 10% give 1620, and 1.75 btc bought at 8000 sold at 8001 give 1.575.
C16_FeeModel ==
    \A i \in Entries : IsMarginCall(log[i]) =>
        LET e == log[i]
            q == e.msg.purchase.btc
            r == e.msg.purchase.rate
            t == e.msg.current_trend
            gross == e.item[1]
            net == e.item[2]
            p == FeePercent(e.before.fee)
            scale == q.e + MaxScale(r, t)
        IN  /\ gross # Panic /\ net # Panic
            /\ gross.e <= scale
            /\ IntOf(gross, scale) = Gross(e.msg.purchase, t)
            /\ DecLt(t, r) => gross.neg
            /\ e.before.fee = FeeNone => net = gross
            /\ e.before.fee # FeeNone =>
                  IntMul(IntOf(net, net.e), IntPow10(2 + gross.e + p.e)) =
                      IntMul(IntMul(IntOf(gross, gross.e),
                                    IntSub(IntPow10(p.e + 2), IntOf(p, p.e))),
                             IntPow10(net.e))
            /\ (q = Dec(2) /\ r = Dec(100) /\ t = Dec(1000) /\ p = Dec(10)) =>
                  net = Dec(1620)
            /\ (q = DecNew(175, 2) /\ r = Dec(8000) /\ t = Dec(10000)) =>
                  gross = Dec(3500)
            /\ (q = Dec(5) /\ r = Dec(100) /\ t = Dec(50)) =>
                  gross = Dec(0 - 250)
            /\ (q = DecNew(175, 2) /\ r = Dec(8000) /\ t = Dec(8001)
                    /\ p = Dec(10)) =>
                  net = DecNew(1575, 3)

\* The margin of 10^-28 btc bought at 0.1 was taken at 0.2 and came out as 0,
\* and the margin of Decimal::MAX btc bought at 2 was taken and panicked.
C16_FailingInput ==
    \E i, j \in Entries :
        /\ IsMarginCall(log[i])
        /\ log[i].msg.purchase.btc = Tiny
        /\ log[i].msg.purchase.rate = DecNew(1, 1)
        /\ log[i].msg.current_trend = DecNew(2, 1)
        /\ log[i].item[1] = Dec(0)
        /\ IsMarginCall(log[j])
        /\ log[j].msg.purchase.btc = DecMAX
        /\ log[j].item[1] = Panic

\* ------------------------------------------------ a stream of offers
\* The actor fed long enough to emit several offers: purchases and fresh
\* readings only, and a consumer that stays.
StreamMsgs == MaxMsgs + 2

StreamSend(message) ==
    /\ inputOpen
    /\ pc # "stopped"
    /\ Len(sent) < StreamMsgs
    /\ Len(inbox) < MaxInbox
    /\ inbox' = channel_send(inbox, message)
    /\ sent' = Append(sent, message)
    /\ UNCHANGED <<now, inputOpen, outputOpen, pc, state, pending, outCap,
                   outbox, offers, log>>

StreamBuyerSend ==
    \E r \in BuyerRates :
        StreamSend(NewPurchase(Purchase(NewPurchaseId, Dec(2), Dec(r))))

StreamTrendSend ==
    \E t \in Trends : StreamSend(TrendReading(Dec(t), now))

NextStream ==
    \/ StreamBuyerSend
    \/ StreamTrendSend
    \/ ActorHandle
    \/ ActorEmit
    \/ ConsumerRecv

SpecStream == Init /\ [][NextStream]_vars

\* The offers the consumer has not taken yet: those in the outbound channel
\* and the one the actor is sending.
Waiting == outbox \o pending

\* The outbound channel has room for the offer the actor is sending.
HasRoom == outCap = 0 \/ Len(outbox) < outCap

\* The Offers reach the consumer in the order of the readings that produced
\* them.
InReadingOrder ==
    /\ \A k \in 1..Len(Emitted) - 1 : Emitted[k].id < Emitted[k + 1].id
    /\ \A k \in 1..Len(Emitted) :
          \E i \in Entries :
              /\ log[i].offer = <<Emitted[k]>>
              /\ Len(SelectSeq(SubSeq(log, 1, i), LAMBDA e : e.offer # <<>>)) = k

\* C20 as stated: the actor handles one message at a time; while an Offer is
\* waiting to be taken by the consumer no further message is received and the
\* ledger does not change: the waiting Offer is the only one, and it is the
\* Offer of the last message processed, whose State is the actor's State.
C20_AsStated ==
    /\ ProcessedInOrder
    /\ pc \in {"recv", "send"}
    /\ Waiting # <<>> =>
          /\ Len(Waiting) = 1
          /\ Waiting = log[Len(log)].offer
          /\ state = log[Len(log)].after
    /\ InReadingOrder

\* C20, amended: the actor handles one message at a time to completion. It
\* waits only to receive or to emit; while it is emitting an Offer, which
\* lasts as long as the outbound channel has no room, it receives nothing and
\* the ledger stays as the reading left it; an Offer that found room in the
\* outbound channel waits there while the actor goes on; the Offers reach the
\* consumer in the order of the readings that produced them.
C20_OneMessageAtATime ==
    /\ ProcessedInOrder
    /\ inbox = SubSeq(sent, Len(log) + 1, Len(sent))
    /\ pc \in {"recv", "send"}
    /\ Len(outbox) <= outCap
    /\ pc = "recv" =>
          /\ pending = <<>>
          /\ offers \o outbox = Built
          /\ inbox = <<>> => ~ENABLED ActorStep
    /\ pc = "send" =>
          /\ Len(pending) = 1
          /\ pending = log[Len(log)].offer
          /\ state = log[Len(log)].after
          /\ Emitted = Built
          /\ ~ENABLED ActorHandle
          /\ HasRoom => ENABLED ActorEmit
          /\ ~HasRoom => ~ENABLED ActorStep
    /\ InReadingOrder

\* The actor is emitting a second Offer into an outbound channel that is full
\* with the first, while a message sent since is waiting in the inbound
\* channel.
C20_Witness ==
    /\ pc = "send"
    /\ outCap > 0
    /\ Len(outbox) = outCap
    /\ outbox[1].rate # pending[1].rate
    /\ inbox # <<>>

\* The places of the ledger, and of the Offers built, that hold the purchase
\* of this id.
PlacesInLedger(id) == {k \in 1..Len(state.account) : state.account[k].id = id}
PlacesInOffers(id) ==
    {<<o, k>> \in (1..Len(Built)) \X (1..StreamMsgs) :
        /\ k <= Len(Built[o].purchases)
        /\ Built[o].purchases[k].id = id}

\* C21: every purchase the actor received in a NewPurchase is in exactly one
\* place, the ledger or one Offer built by the actor: never in two Offers,
\* twice in one Offer, or in an Offer and still in the ledger; and the ledger
\* and the Offers hold nothing else.
C21_Conservation ==
    /\ Cardinality(Introduced) =
           Len(SelectSeq(log, LAMBDA e : IsInsert(e)))
    /\ \A p, q \in Introduced : p.id = q.id => p = q
    /\ \A p \in Introduced :
           Cardinality(PlacesInLedger(p.id)) +
               Cardinality(PlacesInOffers(p.id)) = 1
    /\ Range(state.account) \subseteq Introduced
    /\ \A o \in 1..Len(Built) : Range(Built[o].purchases) \subseteq Introduced
    /\ Len(state.account) + Len(Built) <= Cardinality(Introduced)

\* The actor stopped at a reading after it had taken a purchase off the
\* ledger: the purchase is neither in the ledger nor in an Offer.
C21_FailingInput ==
    /\ pc = "stopped"
    /\ log # <<>>
    /\ log[Len(log)].result = "Panic"
    /\ \E p \in Introduced :
          /\ PlacesInLedger(p.id) = {}
          /\ PlacesInOffers(p.id) = {}

\* The k-th message sent is a TrendReading at the front of the inbound
\* channel, and the ledger's best purchase passes the threshold at its rate.
Deliverable(k) ==
    /\ Len(log) = k - 1
    /\ inbox # <<>>
    /\ Head(inbox).type = "TrendReading"
    /\ state.account # <<>>
    /\ Passes(peek(state.account)[1], Head(inbox).current_trend, state)

\* The consumer has got an Offer that lists the purchase of this id.
Delivered(id) == \E o \in 1..Len(offers) : id \in Ids(offers[o].purchases)

\* The actor has received the k-th message: it was stale by then, or the
\* consumer has got an Offer with the best purchase of the ledger it met.
Settled(k) ==
    /\ Len(log) >= k
    /\ \/ IsStale(log[k])
       \/ /\ log[k].before.account # <<>>
          /\ Delivered(peek(log[k].before.account)[1].id)

\* C22: a TrendReading at which the ledger's best purchase passes, fresh when
\* the actor receives it, leads to an Offer with that purchase reaching the
\* consumer, the actor being scheduled fairly and the consumer receiving.
C22_ResponseLiveness ==
    \A k \in 1..MaxMsgs : Deliverable(k) ~> Settled(k)

\* The actor received a fresh reading at which the best purchase of the
\* ledger passes the threshold, and stopped at it.
C22_FailingInput ==
    \E k \in Entries :
        /\ IsEvaluated(log[k])
        /\ log[k].result = "Panic"
        /\ Passes(peek(log[k].before.account)[1], log[k].msg.current_trend,
                  log[k].before)
        /\ pc = "stopped"
        /\ offers = <<>>

\* A direct call of collect_profit.
IsCollect(e) == e.op = "collect"

\* C23: the ledger orders purchases by rate alone and tells them apart by id;
\* of two purchases of the same rate a collect round sells both, in the same
\* Offer, or neither, whatever their quantities and wherever the heap holds
\* them: what a round sells is decided by the set of purchases it meets.
C23_EqualRateTies ==
    \A i \in Entries : IsCollect(log[i]) =>
        LET e == log[i]
            held == Range(e.before.account)
        IN  /\ \A p, q \in held :
                  (/\ p.rate = q.rate
                   /\ DecGt(p.btc, Dec(0)) /\ DecGt(q.btc, Dec(0))) =>
                      /\ PurchaseCmp(p, q) = 0
                      /\ PurchaseEq(p, q) <=> p = q
                      /\ p \in Range(Sold(e)) <=> q \in Range(Sold(e))
                      /\ p \in Range(e.after.account) <=>
                             q \in Range(e.after.account)
            /\ Range(Sold(e)) =
                   {p \in held : Passes(p, e.msg.current_trend, e.before)}
            /\ \A j \in Entries :
                  (/\ IsCollect(log[j])
                   /\ log[j].msg.current_trend = e.msg.current_trend
                   /\ Range(log[j].before.account) = held)
                  => Range(Sold(log[j])) = Range(Sold(e))

\* A collect met two purchases of one rate, of 10^-28 btc and of 1 btc, sold
\* the first and left the second.
C23_FailingInput ==
    \E i \in Entries :
        /\ IsCollect(log[i])
        /\ \E p \in Range(Sold(log[i])), q \in Range(log[i].after.account) :
              /\ p.rate = q.rate
              /\ p.btc = Tiny
              /\ q.btc = Dec(1)

=============================================================================
